---- MODULE Spec2Model ----
(***************************************************************************)
(* Model of cli/commands/scaffold/action.go: the scaffold command's Run    *)
(* pipeline (source resolution, fetch, extraction, classification, context *)
(* assembly, rendering, formatting), listInputs and readBlockAttribute.    *)
(*                                                                         *)
(* Program strings are TLA+ strings; Len, \o and SubSeq are used on them.  *)
(***************************************************************************)
EXTENDS Integers, Sequences, FiniteSets, TLC

VARIABLES
    pc,              \* position of Run (or of the function under check)
    cliArgs,         \* opts.TerraformCliArgs[1], [2]: [moduleUrl, templateUrl]
    scaffoldVars,    \* opts.ScaffoldVars: [SourceUrlType, SourceGitSshUser]
    parsedModuleUrl, \* the *url.URL of the module after ToSourceUrl / ref injection
    moduleUrl,       \* the local string moduleUrl of Run
    lookups,         \* calls of getLatestReleaseTag so far: the root paths passed
    fetches,         \* calls of getter.GetAny so far: [dst, src]
    tempDirs,        \* number of os.MkdirTemp calls that succeeded
    moduleDir,       \* content of tempDir after the module fetch
    inputs,          \* result of listInputs inside Run
    tplVars,         \* the map handed to boilerplate (the keys Run sets)
    stages,          \* stages executed so far, in order
    result,          \* "running", "ok", "error" or "panic"
    errStage,        \* the stage whose error Run returned ("" if none)
    dir,             \* listInputs under check: the directory
    extracted,       \* listInputs under check: its outcome
    blk,             \* readBlockAttribute under check: the block
    attrName,        \* readBlockAttribute under check: the attribute name
    attrResult       \* readBlockAttribute under check: its outcome

vars == <<pc, cliArgs, scaffoldVars, parsedModuleUrl, moduleUrl, lookups,
          fetches, tempDirs, moduleDir, inputs, tplVars, stages, result,
          errStage, dir, extracted, blk, attrName, attrResult>>

-----------------------------------------------------------------------------
(* Strings                                                                 *)

Ch(s, i) == SubSeq(s, i, i)

From(s, i) == SubSeq(s, i, Len(s))

HasPrefixAt(s, i, p) ==
    /\ i >= 1
    /\ i + Len(p) - 1 <= Len(s)
    /\ SubSeq(s, i, i + Len(p) - 1) = p

\* strings.HasPrefix
HasPrefix(s, p) == HasPrefixAt(s, 1, p)

\* strings.HasSuffix
HasSuffix(s, p) == HasPrefixAt(s, Len(s) - Len(p) + 1, p)

\* strings.TrimSuffix
TrimSuffix(s, p) ==
    IF HasSuffix(s, p) THEN SubSeq(s, 1, Len(s) - Len(p)) ELSE s

\* Position of the first occurrence of p in s at or after i; 0 if none.
IndexFrom(s, p, i) ==
    LET hits == {j \in i..Len(s) : HasPrefixAt(s, j, p)}
    IN  IF hits = {} THEN 0 ELSE CHOOSE j \in hits : \A k \in hits : j <= k

\* strings.Split(s, sep) for a non-empty sep
RECURSIVE Split(_, _)
Split(s, sep) ==
    LET j == IndexFrom(s, sep, 1)
    IN  IF j = 0 THEN <<s>>
        ELSE <<SubSeq(s, 1, j - 1)>> \o Split(From(s, j + Len(sep)), sep)

\* strings.SplitN(s, sep, 2)
SplitN2(s, sep) ==
    LET j == IndexFrom(s, sep, 1)
    IN  IF j = 0 THEN <<s>>
        ELSE <<SubSeq(s, 1, j - 1), From(s, j + Len(sep))>>

RECURSIVE Join(_, _)
Join(parts, sep) ==
    IF parts = <<>> THEN ""
    ELSE IF Len(parts) = 1 THEN parts[1]
    ELSE parts[1] \o sep \o Join(Tail(parts), sep)

\* Byte order of the characters the locators of the model are written in.
Alphabet == "%&+-./0123456789:=?@_abcdefghijklmnopqrstuvwxyz~"

CharRank(c) == IndexFrom(Alphabet, c, 1)

RECURSIVE StrLess(_, _)
StrLess(a, b) ==
    IF b = "" THEN FALSE
    ELSE IF a = "" THEN TRUE
    ELSE IF Ch(a, 1) = Ch(b, 1) THEN StrLess(From(a, 2), From(b, 2))
    ELSE CharRank(Ch(a, 1)) < CharRank(Ch(b, 1))

-----------------------------------------------------------------------------
(* net/url as Run uses it                                                  *)

\* url.QueryEscape: letters, digits and - _ . ~ are kept, the rest is %XX.
EscapeChar(c) ==
    CASE c = "%" -> "%25"
      [] c = "&" -> "%26"
      [] c = "+" -> "%2B"
      [] c = "/" -> "%2F"
      [] c = ":" -> "%3A"
      [] c = "=" -> "%3D"
      [] c = "?" -> "%3F"
      [] c = "@" -> "%40"
      [] OTHER   -> c

RECURSIVE QueryEscape(_)
QueryEscape(s) ==
    IF s = "" THEN "" ELSE EscapeChar(Ch(s, 1)) \o QueryEscape(From(s, 2))

Escapes == {"%25", "%26", "%2B", "%2F", "%3A", "%3D", "%3F", "%40"}

UnescapeTriple(t) ==
    CASE t = "%25" -> "%"
      [] t = "%26" -> "&"
      [] t = "%2B" -> "+"
      [] t = "%2F" -> "/"
      [] t = "%3A" -> ":"
      [] t = "%3D" -> "="
      [] t = "%3F" -> "?"
      [] t = "%40" -> "@"

\* url.QueryUnescape: [ok, s]; a '%' not followed by two hex digits is an error.
RECURSIVE QueryUnescape(_)
QueryUnescape(s) ==
    IF s = "" THEN [ok |-> TRUE, s |-> ""]
    ELSE IF Ch(s, 1) = "%"
         THEN IF Len(s) >= 3 /\ SubSeq(s, 1, 3) \in Escapes
              THEN LET r == QueryUnescape(From(s, 4))
                   IN  [ok |-> r.ok, s |-> UnescapeTriple(SubSeq(s, 1, 3)) \o r.s]
              ELSE [ok |-> FALSE, s |-> ""]
         ELSE LET r == QueryUnescape(From(s, 2))
              IN  [ok |-> r.ok,
                   s  |-> (IF Ch(s, 1) = "+" THEN " " ELSE Ch(s, 1)) \o r.s]

\* One "k=v" piece of a query string, as url.ParseQuery reads it.
ParsePiece(piece) ==
    LET kv == SplitN2(piece, "=")
        k  == QueryUnescape(kv[1])
        v  == QueryUnescape(IF Len(kv) = 2 THEN kv[2] ELSE "")
    IN  IF piece = "" \/ ~k.ok \/ ~v.ok THEN <<>>
        ELSE <<[key |-> k.s, val |-> v.s]>>

RECURSIVE ParsePieces(_)
ParsePieces(pieces) ==
    IF pieces = <<>> THEN <<>>
    ELSE ParsePiece(Head(pieces)) \o ParsePieces(Tail(pieces))

\* (*url.URL).Query(): the parameters in order of appearance; pieces that do
\* not parse are dropped.
Query(u) == ParsePieces(Split(u.rawQuery, "&"))

\* url.Values.Get: the first value of the key, "" if there is none.
ValuesGet(params, key) ==
    LET hits == {i \in 1..Len(params) : params[i].key = key}
    IN  IF hits = {} THEN ""
        ELSE params[CHOOSE i \in hits : \A j \in hits : i <= j].val

ValuesHas(params, key) == \E i \in 1..Len(params) : params[i].key = key

\* url.Values.Add
ValuesAdd(params, key, val) == Append(params, [key |-> key, val |-> val])

\* The parameters sorted by key, values of one key in their order (stable).
RECURSIVE SortByKey(_)
SortByKey(params) ==
    IF params = <<>> THEN <<>>
    ELSE LET n    == Len(params)
             isMin(i) == /\ \A j \in 1..n : ~StrLess(params[j].key, params[i].key)
                         /\ \A j \in 1..(i - 1) : params[j].key /= params[i].key
             m    == CHOOSE i \in 1..n : isMin(i)
             rest == [i \in 1..(n - 1) |-> IF i < m THEN params[i] ELSE params[i + 1]]
         IN  <<params[m]>> \o SortByKey(rest)

RECURSIVE EncodePairs(_)
EncodePairs(params) ==
    IF params = <<>> THEN <<>>
    ELSE <<QueryEscape(params[1].key) \o "=" \o QueryEscape(params[1].val)>>
         \o EncodePairs(Tail(params))

\* url.Values.Encode
ValuesEncode(params) == Join(EncodePairs(SortByKey(params)), "&")

\* (*url.URL).String()
UrlString(u) ==
    u.scheme \o "://" \o u.host \o u.path
    \o (IF u.rawQuery = "" THEN "" ELSE "?" \o u.rawQuery)

NoUrl == [scheme |-> "", host |-> "", path |-> "", rawQuery |-> ""]

\* terraform.ToSourceUrl: the locator split into scheme (with its forced
\* getter, "git::https"), host, path and raw query; a locator without a
\* scheme before "://" is rejected.
ToSourceUrl(source) ==
    LET i    == IndexFrom(source, "://", 1)
        rest == From(source, i + 3)
        q    == IndexFrom(rest, "?", 1)
        hp   == IF q = 0 THEN rest ELSE SubSeq(rest, 1, q - 1)
        s    == IndexFrom(hp, "/", 1)
    IN  IF i <= 1 THEN [err |-> TRUE, url |-> NoUrl]
        ELSE [err |-> FALSE,
              url |-> [scheme   |-> SubSeq(source, 1, i - 1),
                       host     |-> IF s = 0 THEN hp ELSE SubSeq(hp, 1, s - 1),
                       path     |-> IF s = 0 THEN "" ELSE From(hp, s),
                       rawQuery |-> IF q = 0 THEN "" ELSE From(rest, q + 1)]]

\* terraform.SplitSourceUrl: the root repository locator, its subpath after
\* "//" and its query stripped.
SplitSourceUrl(u) ==
    [err |-> FALSE,
     url |-> [u EXCEPT !.path = SplitN2(u.path, "//")[1], !.rawQuery = ""]]

\* getLatestReleaseTag; api is the answer of the GitHub release lookup,
\* [ok, tag]. Go's pathParts[1] and pathParts[2] are parts[2] and parts[3].
getLatestReleaseTag(rootUrl, api) ==
    LET pathParts == Split(rootUrl.path, "/")
    IN  IF Len(pathParts) < 2
        THEN [status |-> "err", tag |-> "", owner |-> "", repo |-> "", called |-> FALSE]
        ELSE IF Len(pathParts) < 3
        THEN [status |-> "panic", tag |-> "", owner |-> pathParts[2], repo |-> "",
              called |-> FALSE]
        ELSE [status |-> IF api.ok THEN "ok" ELSE "err",
              tag    |-> IF api.ok THEN api.tag ELSE "",
              owner  |-> pathParts[2],
              repo   |-> TrimSuffix(pathParts[3], ".git"),
              called |-> TRUE]

NoMatch == [scheme |-> "", host |-> "", path |-> ""]

\* The leftmost match of git::([^:]+)://([^/]+)(/.*) starting at or after i.
\* A match that starts at j takes ([^:]+) up to the next ':', which must
\* begin "://", and ([^/]+) up to the next '/'; (/.*) is the rest.
RECURSIVE MatchFrom(_, _)
MatchFrom(s, i) ==
    LET j == IndexFrom(s, "git::", i)
        c == IndexFrom(s, ":", j + 5)
        h == IndexFrom(s, "/", c + 3)
    IN  IF j = 0 THEN NoMatch
        ELSE IF /\ c > j + 5
                /\ HasPrefixAt(s, c, "://")
                /\ h > c + 3
             THEN [scheme |-> SubSeq(s, j + 5, c - 1),
                   host   |-> SubSeq(s, c + 3, h - 1),
                   path   |-> From(s, h)]
             ELSE MatchFrom(s, j + 1)

\* parseUrl
parseUrl(url) == MatchFrom(url, 1)

-----------------------------------------------------------------------------
(* cty values and hclsyntax expressions                                    *)

StringVal(s) == [ty |-> "string", str |-> s, num |-> 0, bool |-> FALSE, elems |-> <<>>]
NumberVal(n) == [ty |-> "number", str |-> "", num |-> n, bool |-> FALSE, elems |-> <<>>]
BoolVal(b)   == [ty |-> "bool", str |-> "", num |-> 0, bool |-> b, elems |-> <<>>]
NullVal      == [ty |-> "null", str |-> "", num |-> 0, bool |-> FALSE, elems |-> <<>>]
TupleVal(es) == [ty |-> "tuple", str |-> "", num |-> 0, bool |-> FALSE, elems |-> es]

\* Expressions: a literal, a scope traversal (a reference, name is its root),
\* a function call, a tuple constructor, a template. Absent stands for an
\* attribute the block does not have.
Lit(v)         == [kind |-> "literal", val |-> v, name |-> "", args |-> <<>>]
Trav(root)     == [kind |-> "traversal", val |-> NullVal, name |-> root, args |-> <<>>]
Call(f, as)    == [kind |-> "call", val |-> NullVal, name |-> f, args |-> as]
TupleCons(es)  == [kind |-> "tuple", val |-> NullVal, name |-> "", args |-> es]
Template(ps)   == [kind |-> "template", val |-> NullVal, name |-> "", args |-> ps]
Absent         == [kind |-> "absent", val |-> NullVal, name |-> "", args |-> <<>>]

\* Expression.Variables(): the root names of the traversals of the
\* expression, in the order of the walk over it.
RECURSIVE Variables(_)
RECURSIVE VariablesOfAll(_)
Variables(e) ==
    IF e.kind = "traversal" THEN <<e.name>>
    ELSE IF e.kind = "literal" THEN <<>>
    ELSE VariablesOfAll(e.args)
VariablesOfAll(es) ==
    IF es = <<>> THEN <<>> ELSE Variables(Head(es)) \o VariablesOfAll(Tail(es))

\* Expression.Value(&hcl.EvalContext{}): [err, val]. The context binds no
\* variable and no function, so a traversal and a call are errors. A
\* template joins its parts (the parts of the model are strings).
RECURSIVE Value(_)
RECURSIVE ValuesOfAll(_)
RECURSIVE ConcatStr(_)
ConcatStr(vs) == IF vs = <<>> THEN "" ELSE Head(vs).str \o ConcatStr(Tail(vs))
Value(e) ==
    IF e.kind = "literal" THEN [err |-> FALSE, val |-> e.val]
    ELSE IF e.kind \in {"traversal", "call"} THEN [err |-> TRUE, val |-> NullVal]
    ELSE LET parts == ValuesOfAll(e.args)
         IN  IF parts.err THEN [err |-> TRUE, val |-> NullVal]
             ELSE IF e.kind = "tuple"
             THEN [err |-> FALSE, val |-> TupleVal(parts.vals)]
             ELSE [err |-> FALSE, val |-> StringVal(ConcatStr(parts.vals))]
ValuesOfAll(es) ==
    IF es = <<>> THEN [err |-> FALSE, vals |-> <<>>]
    ELSE LET h == Value(Head(es))
             t == ValuesOfAll(Tail(es))
         IN  [err |-> h.err \/ t.err,
              vals |-> IF h.err \/ t.err THEN <<>> ELSE <<h.val>> \o t.vals]

\* block.Body.Attributes[name]
Attribute(block, name) == block.attrs[name]

\* Mutant of readBlockAttribute: the name is returned only for an expression
\* that is itself one bare reference; the rest is evaluated.
readBlockAttributeBareOnly(block, name) ==
    LET expr == Attribute(block, name)
        v    == Value(expr)
    IN  IF expr.kind = "absent"
        THEN [found |-> FALSE, err |-> FALSE, val |-> NullVal]
        ELSE IF expr.kind = "traversal"
        THEN [found |-> TRUE, err |-> FALSE, val |-> StringVal(expr.name)]
        ELSE IF v.err THEN [found |-> FALSE, err |-> TRUE, val |-> NullVal]
        ELSE [found |-> TRUE, err |-> FALSE, val |-> v.val]

\* readBlockAttribute: [found, err, val]; found is "the returned pointer is
\* not nil".
readBlockAttribute(block, name) ==
    LET expr == Attribute(block, name)
    IN  IF expr.kind = "absent"
        THEN [found |-> FALSE, err |-> FALSE, val |-> NullVal]
        ELSE IF Len(Variables(expr)) > 0
        THEN [found |-> TRUE, err |-> FALSE, val |-> StringVal(Variables(expr)[1])]
        ELSE LET v == Value(expr)
             IN  IF v.err THEN [found |-> FALSE, err |-> TRUE, val |-> NullVal]
                 ELSE [found |-> TRUE, err |-> FALSE, val |-> v.val]

-----------------------------------------------------------------------------
(* JSON text of a default value                                            *)

Digit(d) == Ch("0123456789", d + 1)

RECURSIVE NatText(_)
NatText(n) == IF n < 10 THEN Digit(n) ELSE NatText(n \div 10) \o Digit(n % 10)

IntText(n) == IF n < 0 THEN "-" \o NatText(-n) ELSE NatText(n)

\* encoding/json's string escapes of the characters the model uses.
JsonChar(c) ==
    CASE c = "\"" -> "\\\""
      [] c = "\\" -> "\\\\"
      [] c = "<"  -> "\\u003c"
      [] OTHER    -> c

RECURSIVE JsonChars(_)
JsonChars(s) == IF s = "" THEN "" ELSE JsonChar(Ch(s, 1)) \o JsonChars(From(s, 2))

\* Mutant of JsonText: the text of the value (AsString) instead of its JSON.
JsonTextRaw(v) ==
    CASE v.ty = "string" -> v.str
      [] v.ty = "number" -> IntText(v.num)
      [] v.ty = "bool"   -> IF v.bool THEN "true" ELSE "false"
      [] v.ty = "null"   -> "null"
      [] v.ty = "tuple"  -> "[]"

\* ctyjson.Marshal(v, cty.DynamicPseudoType), json.Unmarshal into
\* CtyJsonValue, json.Marshal of its Value: the JSON text of the value's
\* data, its type dropped. The values an empty context yields are known, and
\* none of the three calls fails on them.
RECURSIVE JsonText(_)
RECURSIVE JsonElems(_)
JsonText(v) ==
    CASE v.ty = "string" -> "\"" \o JsonChars(v.str) \o "\""
      [] v.ty = "number" -> IntText(v.num)
      [] v.ty = "bool"   -> IF v.bool THEN "true" ELSE "false"
      [] v.ty = "null"   -> "null"
      [] v.ty = "tuple"  -> "[" \o Join(JsonElems(v.elems), ",") \o "]"
JsonElems(vs) ==
    IF vs = <<>> THEN <<>> ELSE <<JsonText(Head(vs))>> \o JsonElems(Tail(vs))

-----------------------------------------------------------------------------
(* listInputs                                                              *)

\* A directory is the sequence of the entries filepath.Walk visits, in its
\* (lexical) order. An entry: base (its file name), isDir, walkErr (Walk
\* hands the callback an error for it), status of a file ("ok",
\* "unreadable": os.ReadFile fails, "unparsable": ParseHCL has errors) and
\* the top-level blocks of its content. A block: type, labels and attrs, the
\* three attributes listInputs reads.

EntryPath(i, e) == Ch("abcdefgh", i) \o "/" \o e.base

\* filepath.Ext: from the last '.' of the last path element.
Ext(path) ==
    LET dots == {i \in 1..Len(path) :
                    /\ Ch(path, i) = "."
                    /\ \A j \in (i + 1)..Len(path) : Ch(path, j) /= "/"}
    IN  IF dots = {} THEN ""
        ELSE From(path, CHOOSE i \in dots : \A j \in dots : j <= i)

\* The walk callback of listTerraformFiles on entries i.. of the directory.
RECURSIVE WalkFrom(_, _, _)
WalkFrom(entries, i, tfFiles) ==
    IF i > Len(entries) THEN [err |-> FALSE, files |-> tfFiles]
    ELSE IF entries[i].walkErr THEN [err |-> TRUE, files |-> tfFiles]
    ELSE IF ~entries[i].isDir /\ Ext(EntryPath(i, entries[i])) = ".tf"
    THEN WalkFrom(entries, i + 1, Append(tfFiles, i))
    ELSE WalkFrom(entries, i + 1, tfFiles)

\* listTerraformFiles: [err, files]; a file is named by its place in the walk.
listTerraformFiles(entries) == WalkFrom(entries, 1, <<>>)

NoInput == [Name |-> "", Description |-> "", Type |-> "", DefaultValue |-> ""]

\* cty.Value.AsString panics on a value that is not a known, non-null string.
AsStringPanics(v) == v.ty /= "string"

\* The body of the loop over body.Blocks for one block:
\* [status, input], status "skip" (no descriptor), "ok" (descriptor built)
\* or "panic".
BlockInput(block) ==
    LET name         == block.labels[1]
        descr        == readBlockAttribute(block, "description")
        typ          == readBlockAttribute(block, "type")
        def          == readBlockAttribute(block, "default")
        descrText    == IF descr.found THEN descr.val.str
                        ELSE "No description for " \o name
        typeText     == IF typ.found THEN typ.val.str
                        ELSE "No type for " \o name
        defaultText  == IF def.found THEN JsonText(def.val) ELSE ""
    IN  IF block.type /= "variable" THEN [status |-> "skip", input |-> NoInput]
        ELSE IF Len(block.labels) = 0 THEN [status |-> "panic", input |-> NoInput]
        ELSE IF Len(name) = 0 THEN [status |-> "skip", input |-> NoInput]
        ELSE IF descr.found /\ AsStringPanics(descr.val)
        THEN [status |-> "panic", input |-> NoInput]
        ELSE IF typ.found /\ AsStringPanics(typ.val)
        THEN [status |-> "panic", input |-> NoInput]
        ELSE [status |-> "ok",
              input  |-> [Name         |-> name,
                          Description  |-> descrText,
                          Type         |-> typeText,
                          DefaultValue |-> defaultText]]

\* The loop over body.Blocks: [status, inputs], status "ok" or "panic".
RECURSIVE BlocksInputs(_, _)
BlocksInputs(blocks, parsedInputs) ==
    IF blocks = <<>> THEN [status |-> "ok", inputs |-> parsedInputs]
    ELSE LET b == BlockInput(Head(blocks))
         IN  IF b.status = "panic" THEN [status |-> "panic", inputs |-> parsedInputs]
             ELSE BlocksInputs(Tail(blocks),
                               IF b.status = "ok" THEN Append(parsedInputs, b.input)
                               ELSE parsedInputs)

\* Mutant of FilesInputs: a file that cannot be read or parsed ends the loop.
RECURSIVE FilesInputsStopAtBadFile(_, _, _)
FilesInputsStopAtBadFile(entries, tfFiles, parsedInputs) ==
    IF tfFiles = <<>> THEN [status |-> "ok", inputs |-> parsedInputs]
    ELSE LET f == entries[Head(tfFiles)]
         IN  IF f.status /= "ok"
             THEN [status |-> "ok", inputs |-> parsedInputs]
             ELSE LET r == BlocksInputs(f.blocks, parsedInputs)
                  IN  IF r.status = "panic" THEN r
                      ELSE FilesInputsStopAtBadFile(entries, Tail(tfFiles), r.inputs)

\* The loop over tfFiles.
RECURSIVE FilesInputs(_, _, _)
FilesInputs(entries, tfFiles, parsedInputs) ==
    IF tfFiles = <<>> THEN [status |-> "ok", inputs |-> parsedInputs]
    ELSE LET f == entries[Head(tfFiles)]
         IN  IF f.status /= "ok"
             THEN FilesInputs(entries, Tail(tfFiles), parsedInputs)
             ELSE LET r == BlocksInputs(f.blocks, parsedInputs)
                  IN  IF r.status = "panic" THEN r
                      ELSE FilesInputs(entries, Tail(tfFiles), r.inputs)

\* listInputs: [status, inputs]; status "ok" (returns the inputs), "err"
\* (returns an error) or "panic".
listInputs(entries) ==
    LET l == listTerraformFiles(entries)
    IN  IF l.err THEN [status |-> "err", inputs |-> <<>>]
        ELSE FilesInputs(entries, l.files, <<>>)

-----------------------------------------------------------------------------
(* Run                                                                     *)

SourceUrlTypeHttps == "git-https"
SourceUrlTypeGit   == "git-ssh"
SourceGitSshUser   == "git"

\* params.Get("ref") of the parsed module locator
RefOf(u) == ValuesGet(Query(u), "ref")

\* Mutant of InjectRef: the tag is added to params and RawQuery is not set.
InjectRefNotStored(u, tag) == u

\* params.Add("ref", tag); parsedModuleUrl.RawQuery = params.Encode()
InjectRef(u, tag) ==
    [u EXCEPT !.rawQuery = ValuesEncode(ValuesAdd(Query(u), "ref", tag))]

\* Mutant of FetchSource: the locator is rebuilt without its query.
FetchSourceNoQuery(u) == u.scheme \o "://" \o u.host \o u.path

\* The locator Run hands to getter.GetAny for the module.
FetchSource(u) == UrlString(u)

\* The loop that separates the inputs: those without a default value ...
RequiredInputs(all) == SelectSeq(all, LAMBDA in : in.DefaultValue = "")

\* Mutant of OptionalInputs: every input is appended to the optional list.
OptionalInputsAll(all) == all

\* ... and those with one.
OptionalInputs(all) == SelectSeq(all, LAMBDA in : in.DefaultValue /= "")

HasVar(v, key) == key \in DOMAIN v

\* sourceUrlType := SourceUrlTypeHttps unless vars["SourceUrlType"] is set
UrlTypeOf(v) ==
    IF HasVar(v, "SourceUrlType") THEN v["SourceUrlType"] ELSE SourceUrlTypeHttps

\* gitUser := SourceGitSshUser unless vars["SourceGitSshUser"] is set
GitUserOf(v) ==
    IF HasVar(v, "SourceGitSshUser") THEN v["SourceGitSshUser"] ELSE SourceGitSshUser

\* The rewrite of moduleUrl: parseUrl, and the SSH form when the scheme is
\* SourceUrlTypeHttps and the SSH type is asked for.
RewriteApplies(url, v) ==
    LET m == parseUrl(url)
    IN  /\ m.scheme /= ""
        /\ m.scheme = SourceUrlTypeHttps
        /\ UrlTypeOf(v) = SourceUrlTypeGit

SshForm(gitUser, host, path) ==
    gitUser \o "@" \o host \o ":"
    \o (IF HasPrefix(path, "/") THEN From(path, 2) ELSE path)

RewriteUrl(url, v) ==
    LET m == parseUrl(url)
    IN  IF RewriteApplies(url, v) THEN SshForm(GitUserOf(v), m.host, m.path)
        ELSE url

\* vars after Run has set its three keys.
AssembleVars(v, all, url) ==
    [k \in DOMAIN v \cup {"parsedRequiredInputs", "parsedOptionalInputs", "sourceUrl"} |->
        CASE k = "parsedRequiredInputs" -> RequiredInputs(all)
          [] k = "parsedOptionalInputs" -> OptionalInputs(all)
          [] k = "sourceUrl"            -> RewriteUrl(url, v)
          [] OTHER                      -> v[k]]

-----------------------------------------------------------------------------
(* Inputs                                                                  *)

MaxEntries == 2   \* entries of a directory under listInputs
MaxBlocks  == 2   \* blocks of a declaration file under listInputs

SeqsUpTo(S, n) == UNION {[1..k -> S] : k \in 0..n}

Block(t, ls, d, ty, def) ==
    [type |-> t, labels |-> ls,
     attrs |-> [description |-> d, type |-> ty, default |-> def]]

Exprs ==
    { Lit(StringVal("a")), Lit(StringVal("")), Lit(NumberVal(5)), Lit(NumberVal(0)),
      Lit(BoolVal(TRUE)), Lit(BoolVal(FALSE)), Lit(NullVal),
      TupleCons(<<>>), TupleCons(<<Lit(StringVal("a"))>>),
      Trav("string"),
      Call("list", <<Trav("string")>>),
      Template(<<Trav("a"), Lit(StringVal("-")), Trav("b")>>),
      Call("file", <<Lit(StringVal("p"))>>) }

AttrExprs == Exprs \cup {Absent}

AttrNames == {"description", "type", "default"}

LabelLists == {<<>>, <<"">>, <<"X">>, <<"Y", "Z">>}

\* Every variable block over the expressions above.
VariableBlocks ==
    {Block("variable", ls, d, ty, def) :
        ls \in LabelLists, d \in AttrExprs, ty \in AttrExprs, def \in AttrExprs}

VarX    == Block("variable", <<"X">>, Absent, Absent, Absent)
VarXdef == Block("variable", <<"X">>, Absent, Absent, Lit(NumberVal(5)))
VarY    == Block("variable", <<"Y">>, Lit(StringVal("d")), Trav("string"),
                 Lit(StringVal("a")))
VarW    == Block("variable", <<"W">>, Absent, Absent, Absent)
VarNoLabel == Block("variable", <<>>, Absent, Absent, Absent)
OutZ    == Block("output", <<"Z">>, Lit(StringVal("d")), Absent, Absent)

SmallBlocks == {VarX, VarY, OutZ}

Entry(b, isDir, walkErr, st, blocks) ==
    [base |-> b, isDir |-> isDir, walkErr |-> walkErr, status |-> st, blocks |-> blocks]

TfFile(blocks) == Entry("main.tf", FALSE, FALSE, "ok", blocks)
Unreadable     == Entry("main.tf", FALSE, FALSE, "unreadable", <<VarX>>)
Unparsable     == Entry("main.tf", FALSE, FALSE, "unparsable", <<VarY>>)
NotTf          == Entry("terraform.tfvars", FALSE, FALSE, "ok", <<VarY>>)
DirNamedTf     == Entry("mod.tf", TRUE, FALSE, "ok", <<>>)
WalkError      == Entry("sub", TRUE, TRUE, "ok", <<>>)

SmallEntries ==
    {TfFile(bs) : bs \in SeqsUpTo(SmallBlocks, MaxBlocks)}
    \cup {Unreadable, Unparsable, NotTf, DirNamedTf, WalkError}

\* The directories listInputs is checked on: the walks of up to MaxEntries
\* entries, and one file with each single variable block.
ExtractDirs ==
    SeqsUpTo(SmallEntries, MaxEntries) \cup {<<TfFile(<<b>>)>> : b \in VariableBlocks}

\* What the module fetch can leave in tempDir.
RunDirs ==
    { <<>>,
      <<TfFile(<<VarX, VarY>>)>>,
      <<TfFile(<<VarX>>), TfFile(<<VarXdef>>)>>,
      <<Unreadable, TfFile(<<VarY, OutZ>>)>>,
      <<TfFile(<<VarX, VarY>>), TfFile(<<VarW>>)>>,
      <<WalkError>>,
      <<TfFile(<<VarNoLabel>>)>> }

ModuleUrls ==
    { "git::https://github.com/org/repo//modules/x",
      "git::https://github.com/org/repo.git//modules/x?ref=v0.9",
      "git::https://github.com/org/repo?ref=&depth=1",
      "git::git-https://github.com/org/repo//modules/x",
      "git::ssh://git@github.com/org/repo",
      "git::https://github.com/org",
      "git::https://github.com",
      "https://example.com/org/m.zip?ref=v1&via=git::git-https://h/p",
      "" }

TemplateUrls == {"", "git::https://github.com/org/tpl", "://tpl"}

\* opts.ScaffoldVars as variables.ParseVars returns them.
VarsOf(t, u) ==
    [k \in {x \in {"SourceUrlType"} : t /= <<>>}
           \cup {x \in {"SourceGitSshUser"} : u /= <<>>} |->
        IF k = "SourceUrlType" THEN t[1] ELSE u[1]]

ScaffoldVarSets ==
    {VarsOf(t, u) : t \in {<<>>, <<"git-ssh">>, <<"https">>}, u \in {<<>>, <<"alice">>}}

\* Answers of the GitHub latest-release lookup.
ApiAnswers ==
    { [ok |-> FALSE, tag |-> ""],
      [ok |-> TRUE, tag |-> "v1.2.3"],
      [ok |-> TRUE, tag |-> "release/1"] }

-----------------------------------------------------------------------------
(* State                                                                   *)

NoResult == [status |-> "none", inputs |-> <<>>]
NoAttr   == [found |-> FALSE, err |-> FALSE, val |-> NullVal]

RunIdle ==
    /\ cliArgs = [moduleUrl |-> "", templateUrl |-> ""]
    /\ scaffoldVars = <<>>
    /\ parsedModuleUrl = NoUrl
    /\ moduleUrl = ""
    /\ lookups = <<>>
    /\ fetches = <<>>
    /\ tempDirs = 0
    /\ moduleDir = <<>>
    /\ inputs = <<>>
    /\ tplVars = <<>>
    /\ stages = <<>>
    /\ result = "running"
    /\ errStage = ""

ExtractIdle == dir = <<>> /\ extracted = NoResult

AttrIdle == blk = VarX /\ attrName = "description" /\ attrResult = NoAttr

\* Run is entered with its arguments and nothing done yet.
Init ==
    /\ pc = "mkdir_temp"
    /\ cliArgs \in [moduleUrl : ModuleUrls, templateUrl : TemplateUrls]
    /\ scaffoldVars \in ScaffoldVarSets
    /\ parsedModuleUrl = NoUrl
    /\ moduleUrl = cliArgs.moduleUrl
    /\ lookups = <<>>
    /\ fetches = <<>>
    /\ tempDirs = 0
    /\ moduleDir = <<>>
    /\ inputs = <<>>
    /\ tplVars = <<>>
    /\ stages = <<>>
    /\ result = "running"
    /\ errStage = ""
    /\ ExtractIdle
    /\ AttrIdle

Did(stage)    == [stage |-> stage, failed |-> FALSE]
Failed(stage) == [stage |-> stage, failed |-> TRUE]

-----------------------------------------------------------------------------
(* The stages of Run                                                       *)

\* return errors.WithStackTrace(err) at a stage, log the stages executed
Abort(stage, log) ==
    /\ result' = "error"
    /\ errStage' = stage
    /\ stages' = log
    /\ pc' = "done"

\* a run-time panic ends Run
Panic(log) ==
    /\ result' = "panic"
    /\ errStage' = ""
    /\ stages' = log
    /\ pc' = "done"

Goto(next, log) ==
    /\ pc' = next
    /\ stages' = log
    /\ UNCHANGED <<result, errStage>>

\* tempDir, err := os.MkdirTemp("", "scaffold")
MkTempDir ==
    /\ pc = "mkdir_temp"
    /\ \E ok \in BOOLEAN :
          IF ok
          THEN /\ tempDirs' = tempDirs + 1
               /\ Goto("resolve_source", Append(stages, Did("mkdir_temp")))
          ELSE /\ Abort("mkdir_temp", Append(stages, Failed("mkdir_temp")))
               /\ UNCHANGED tempDirs
    /\ UNCHANGED <<cliArgs, scaffoldVars, parsedModuleUrl, moduleUrl, lookups,
                   fetches, moduleDir, inputs, tplVars, dir, extracted, blk,
                   attrName, attrResult>>

\* ToSourceUrl, the ref parameter, the latest release tag, moduleUrl
ResolveSource ==
    /\ pc = "resolve_source"
    /\ \E api \in ApiAnswers :
        LET n   == ToSourceUrl(moduleUrl)
            sp  == SplitSourceUrl(n.url)
            r   == getLatestReleaseTag(sp.url, api)
            u   == IF r.status = "ok" THEN InjectRef(n.url, r.tag) ELSE n.url
            log == Append(stages, Did("normalize_module"))
        IN  IF n.err
            THEN /\ Abort("normalize_module", Append(stages, Failed("normalize_module")))
                 /\ UNCHANGED <<parsedModuleUrl, moduleUrl, lookups>>
            ELSE IF RefOf(n.url) /= ""
            THEN /\ parsedModuleUrl' = n.url
                 /\ moduleUrl' = UrlString(n.url)
                 /\ Goto("fetch_module", log)
                 /\ UNCHANGED lookups
            ELSE IF sp.err
            THEN /\ Abort("split_source", Append(log, Failed("split_source")))
                 /\ parsedModuleUrl' = n.url
                 /\ UNCHANGED <<moduleUrl, lookups>>
            ELSE /\ lookups' = Append(lookups, r)
                 /\ IF r.status = "panic"
                    THEN /\ Panic(Append(log, Failed("release_lookup")))
                         /\ parsedModuleUrl' = n.url
                         /\ UNCHANGED moduleUrl
                    ELSE /\ parsedModuleUrl' = u
                         /\ moduleUrl' = UrlString(u)
                         /\ Goto("fetch_module",
                                 Append(log, IF r.status = "ok"
                                             THEN Did("release_lookup")
                                             ELSE Failed("release_lookup")))
    /\ UNCHANGED <<cliArgs, scaffoldVars, fetches, tempDirs, moduleDir, inputs,
                   tplVars, dir, extracted, blk, attrName, attrResult>>

\* getter.GetAny(tempDir, parsedModuleUrl.String())
FetchModule ==
    /\ pc = "fetch_module"
    /\ fetches' = Append(fetches, [dst |-> "tempDir", src |-> FetchSource(parsedModuleUrl)])
    /\ \E ok \in BOOLEAN, d \in RunDirs :
          IF ok
          THEN /\ moduleDir' = d
               /\ Goto("fetch_template", Append(stages, Did("fetch_module")))
          ELSE /\ Abort("fetch_module", Append(stages, Failed("fetch_module")))
               /\ UNCHANGED moduleDir
    /\ UNCHANGED <<cliArgs, scaffoldVars, parsedModuleUrl, moduleUrl, lookups,
                   tempDirs, inputs, tplVars, dir, extracted, blk, attrName,
                   attrResult>>

\* The template: ToSourceUrl (its error is overwritten by MkdirTemp's),
\* os.MkdirTemp, getter.GetAny(templateDir, parsedTemplateUrl.String()), which
\* dereferences the nil URL of a failed ToSourceUrl.
FetchTemplate ==
    /\ pc = "fetch_template"
    /\ \E mk \in BOOLEAN, ok \in BOOLEAN :
        LET n   == ToSourceUrl(cliArgs.templateUrl)
            log == Append(stages, IF n.err THEN Failed("normalize_template")
                                  ELSE Did("normalize_template"))
        IN  IF cliArgs.templateUrl = ""
            THEN /\ Goto("extract", stages)
                 /\ UNCHANGED <<tempDirs, fetches>>
            ELSE IF ~mk
            THEN /\ Abort("mkdir_template", Append(log, Failed("mkdir_template")))
                 /\ UNCHANGED <<tempDirs, fetches>>
            ELSE IF n.err
            THEN /\ Panic(Append(log, Did("mkdir_template")))
                 /\ tempDirs' = tempDirs + 1
                 /\ UNCHANGED fetches
            ELSE /\ tempDirs' = tempDirs + 1
                 /\ fetches' = Append(fetches, [dst |-> "templateDir",
                                                src |-> UrlString(n.url)])
                 /\ IF ok
                    THEN Goto("extract",
                              log \o <<Did("mkdir_template"), Did("fetch_template")>>)
                    ELSE Abort("fetch_template",
                               log \o <<Did("mkdir_template"), Failed("fetch_template")>>)
    /\ UNCHANGED <<cliArgs, scaffoldVars, parsedModuleUrl, moduleUrl, lookups,
                   moduleDir, inputs, tplVars, dir, extracted, blk, attrName,
                   attrResult>>

\* inputs, err := listInputs(opts, tempDir)
Extract ==
    /\ pc = "extract"
    /\ LET r == listInputs(moduleDir)
       IN  IF r.status = "err"
           THEN /\ Abort("extract", Append(stages, Failed("extract")))
                /\ UNCHANGED inputs
           ELSE IF r.status = "panic"
           THEN /\ Panic(Append(stages, Failed("extract")))
                /\ UNCHANGED inputs
           ELSE /\ inputs' = r.inputs
                /\ Goto("prepare_boilerplate", Append(stages, Did("extract")))
    /\ UNCHANGED <<cliArgs, scaffoldVars, parsedModuleUrl, moduleUrl, lookups,
                   fetches, tempDirs, moduleDir, tplVars, dir, extracted, blk,
                   attrName, attrResult>>

\* The boilerplate directory (created with the default template when there
\* is none) and variables.ParseVars.
PrepareBoilerplate ==
    /\ pc = "prepare_boilerplate"
    /\ \E exists \in BOOLEAN, written \in BOOLEAN, parsed \in BOOLEAN :
          IF ~exists /\ ~written
          THEN /\ Abort("boilerplate_dir", Append(stages, Failed("boilerplate_dir")))
               /\ UNCHANGED <<tempDirs, tplVars>>
          ELSE IF ~parsed
          THEN /\ Abort("parse_vars",
                        stages \o <<Did("boilerplate_dir"), Failed("parse_vars")>>)
               /\ tempDirs' = IF exists THEN tempDirs ELSE tempDirs + 1
               /\ UNCHANGED tplVars
          ELSE /\ tplVars' = scaffoldVars
               /\ tempDirs' = IF exists THEN tempDirs ELSE tempDirs + 1
               /\ Goto("assemble",
                       stages \o <<Did("boilerplate_dir"), Did("parse_vars")>>)
    /\ UNCHANGED <<cliArgs, scaffoldVars, parsedModuleUrl, moduleUrl, lookups,
                   fetches, moduleDir, inputs, dir, extracted, blk, attrName,
                   attrResult>>

\* The required and optional lists, the source url, vars["sourceUrl"]
Assemble ==
    /\ pc = "assemble"
    /\ tplVars' = AssembleVars(tplVars, inputs, moduleUrl)
    /\ moduleUrl' = RewriteUrl(moduleUrl, tplVars)
    /\ Goto("render", stages \o <<Did("classify"), Did("context")>>)
    /\ UNCHANGED <<cliArgs, scaffoldVars, parsedModuleUrl, lookups, fetches,
                   tempDirs, moduleDir, inputs, dir, extracted, blk, attrName,
                   attrResult>>

\* templates.ProcessTemplate
Render ==
    /\ pc = "render"
    /\ \E ok \in BOOLEAN :
          IF ok THEN Goto("format", Append(stages, Did("render")))
          ELSE Abort("render", Append(stages, Failed("render")))
    /\ UNCHANGED <<cliArgs, scaffoldVars, parsedModuleUrl, moduleUrl, lookups,
                   fetches, tempDirs, moduleDir, inputs, tplVars, dir,
                   extracted, blk, attrName, attrResult>>

\* hclfmt.Run, return nil
Format ==
    /\ pc = "format"
    /\ \E ok \in BOOLEAN :
          IF ok
          THEN /\ result' = "ok"
               /\ errStage' = ""
               /\ stages' = Append(stages, Did("format"))
               /\ pc' = "done"
          ELSE Abort("format", Append(stages, Failed("format")))
    /\ UNCHANGED <<cliArgs, scaffoldVars, parsedModuleUrl, moduleUrl, lookups,
                   fetches, tempDirs, moduleDir, inputs, tplVars, dir,
                   extracted, blk, attrName, attrResult>>

Next ==
    \/ MkTempDir
    \/ ResolveSource
    \/ FetchModule
    \/ FetchTemplate
    \/ Extract
    \/ PrepareBoilerplate
    \/ Assemble
    \/ Render
    \/ Format

Spec == Init /\ [][Next]_vars

-----------------------------------------------------------------------------
(* listInputs and readBlockAttribute on their own                          *)

InitExtract ==
    /\ pc = "listInputs"
    /\ dir \in ExtractDirs
    /\ extracted = NoResult
    /\ RunIdle
    /\ AttrIdle

CallListInputs ==
    /\ pc = "listInputs"
    /\ extracted' = listInputs(dir)
    /\ pc' = "listInputs_done"
    /\ UNCHANGED <<cliArgs, scaffoldVars, parsedModuleUrl, moduleUrl, lookups,
                   fetches, tempDirs, moduleDir, inputs, tplVars, stages,
                   result, errStage, dir, blk, attrName, attrResult>>

NextExtract == CallListInputs

SpecExtract == InitExtract /\ [][NextExtract]_vars

InitAttr ==
    /\ pc = "readBlockAttribute"
    /\ blk \in VariableBlocks
    /\ attrName \in AttrNames
    /\ attrResult = NoAttr
    /\ RunIdle
    /\ ExtractIdle

CallReadBlockAttribute ==
    /\ pc = "readBlockAttribute"
    /\ attrResult' = readBlockAttribute(blk, attrName)
    /\ pc' = "readBlockAttribute_done"
    /\ UNCHANGED <<cliArgs, scaffoldVars, parsedModuleUrl, moduleUrl, lookups,
                   fetches, tempDirs, moduleDir, inputs, tplVars, stages,
                   result, errStage, dir, extracted, blk, attrName>>

NextAttr == CallReadBlockAttribute

SpecAttr == InitAttr /\ [][NextAttr]_vars

-----------------------------------------------------------------------------
(* Properties                                                              *)

HasDone(stage) == \E i \in 1..Len(stages) : stages[i] = Did(stage)

Assembled == "sourceUrl" \in DOMAIN tplVars

\* The locator as ToSourceUrl normalized it, before any ref injection.
NormalizedUrl == ToSourceUrl(cliArgs.moduleUrl).url

\* The query parameters of a locator string: what follows its first '?'.
LocatorQuery(s) ==
    LET q == IndexFrom(s, "?", 1)
    IN  IF q = 0 THEN <<>> ELSE ParsePieces(Split(From(s, q + 1), "&"))

LookupSucceeded == lookups /= <<>> /\ lookups[1].status = "ok"

\* C1: when the resolved locator is git::https://<host><path> and the user
\* variables hold SourceUrlType=git-ssh, sourceUrl is
\* <gitUser>@<host>:<path without its leading slash>; when SourceUrlType is
\* not git-ssh, sourceUrl is the resolved locator unchanged.
C1_HttpsLocatorRewrittenToSsh ==
    Assembled =>
        LET loc == UrlString(parsedModuleUrl)
            m   == parseUrl(loc)
        IN  /\ (m.scheme = "https" /\ UrlTypeOf(scaffoldVars) = "git-ssh")
                  => tplVars["sourceUrl"] = SshForm(GitUserOf(scaffoldVars), m.host, m.path)
            /\ UrlTypeOf(scaffoldVars) /= "git-ssh" => tplVars["sourceUrl"] = loc

\* C2: getLatestReleaseTag is called at most once in a run; when the
\* normalized locator has no ref parameter and the lookup succeeds with tag
\* T, the final locator's query has ref = T; when the locator carries a
\* non-empty ref, the lookup is never called and the locator's ref (and the
\* whole locator) is what was normalized.
C2_RefInjection ==
    /\ Len(lookups) <= 1
    /\ RefOf(NormalizedUrl) /= "" => lookups = <<>>
    /\ HasDone("normalize_module") =>
          /\ (~ValuesHas(Query(NormalizedUrl), "ref") /\ LookupSucceeded)
                => /\ ValuesGet(LocatorQuery(moduleUrl), "ref") = lookups[1].tag
                   /\ RefOf(parsedModuleUrl) = lookups[1].tag
          /\ RefOf(NormalizedUrl) /= ""
                => /\ parsedModuleUrl = NormalizedUrl
                   /\ RefOf(parsedModuleUrl) = RefOf(NormalizedUrl)

\* C2 witness: a run that ended well, whose locator had no ref and got the
\* tag "release/1", which the query encoding escapes.
C2_Witness ==
    /\ result = "ok"
    /\ ~ValuesHas(Query(NormalizedUrl), "ref")
    /\ LookupSucceeded
    /\ lookups[1].tag = "release/1"
    /\ RefOf(parsedModuleUrl) = "release/1"

\* C3: when the locator has no ref and the tag cannot be obtained, whatever
\* the repository path, Run goes on to the fetch with the locator unpinned.
C3_LookupFailureIsNotFatal ==
    (lookups /= <<>> /\ lookups[1].status /= "ok")
        => /\ result /= "panic"
           /\ HasDone("normalize_module")
           /\ pc /= "resolve_source"
           /\ parsedModuleUrl = NormalizedUrl

ListingFails(entries) == \E i \in 1..Len(entries) : entries[i].walkErr

\* C4: listInputs returns normally on every directory whose listing
\* succeeds, whatever its files hold; it returns an error only when the
\* listing fails (or a default value cannot be serialized), and never crashes.
C4_ExtractionAbortsOnlyOnListingFailure ==
    pc = "listInputs_done" =>
        /\ extracted.status \in {"ok", "err"}
        /\ extracted.status = "err" <=> ListingFails(dir)

IsDeclarationFile(e) == ~e.isDir /\ HasSuffix(e.base, ".tf")

IsLabelledVariable(b) ==
    b.type = "variable" /\ b.labels /= <<>> /\ b.labels[1] /= ""

\* The labelled variable blocks of the files that are read and parsed, files
\* in walk order, blocks in their order in the file.
RECURSIVE LabelledBlocks(_)
LabelledBlocks(entries) ==
    IF entries = <<>> THEN <<>>
    ELSE (IF IsDeclarationFile(Head(entries)) /\ Head(entries).status = "ok"
          THEN SelectSeq(Head(entries).blocks, IsLabelledVariable)
          ELSE <<>>)
         \o LabelledBlocks(Tail(entries))

\* C5: the sequence listInputs returns holds one descriptor per labelled
\* variable block of the files that were read and parsed, in walk order and
\* block order; files that fail contribute nothing and stop nothing.
C5_ExtractionContentAndOrder ==
    (pc = "listInputs_done" /\ extracted.status = "ok") =>
        LET bs == LabelledBlocks(dir)
        IN  /\ Len(extracted.inputs) = Len(bs)
            /\ \A i \in 1..Len(bs) :
                  /\ extracted.inputs[i].Name = bs[i].labels[1]
                  /\ extracted.inputs[i] = BlockInput(bs[i]).input

\* C5 witness: a file that cannot be read or parsed, then a file with two
\* labelled variable blocks, both returned.
C5_Witness ==
    /\ pc = "listInputs_done"
    /\ extracted.status = "ok"
    /\ Len(dir) = 2
    /\ IsDeclarationFile(dir[1]) /\ dir[1].status /= "ok"
    /\ Len(extracted.inputs) = 2
    /\ extracted.inputs[1].Name /= extracted.inputs[2].Name

Names(ins) == {ins[i].Name : i \in 1..Len(ins)}

\* ins is a subsequence of all: its elements, in the order they have in all.
IsSubsequence(ins, all) ==
    \E f \in [1..Len(ins) -> 1..Len(all)] :
        /\ \A i \in 1..Len(ins) : all[f[i]] = ins[i]
        /\ \A i, j \in 1..Len(ins) : i < j => f[i] < f[j]

\* C6 as stated: the two lists partition the extracted descriptors: their lengths add
\* up, a descriptor is required iff its DefaultValue is "", each list keeps
\* the discovery order, and no name is in both lists.
C6_ClassificationPartitionsByName ==
    Assembled =>
        LET req == tplVars["parsedRequiredInputs"]
            opt == tplVars["parsedOptionalInputs"]
        IN  /\ Len(req) + Len(opt) = Len(inputs)
            /\ \A i \in 1..Len(inputs) :
                  (\E j \in 1..Len(req) : req[j] = inputs[i])
                      <=> inputs[i].DefaultValue = ""
            /\ IsSubsequence(req, inputs)
            /\ IsSubsequence(opt, inputs)
            /\ Names(req) \cap Names(opt) = {}

\* A name is declared both without and with a resolved default.
DeclaredBothWays(all, name) ==
    \E i, j \in 1..Len(all) :
        /\ all[i].Name = name /\ all[i].DefaultValue = ""
        /\ all[j].Name = name /\ all[j].DefaultValue /= ""

\* C6 amended: the two lists partition the extracted descriptors (lengths
\* add up, required iff DefaultValue is "", discovery order kept, no
\* descriptor in both lists); a name is in both lists exactly when the tree
\* declares it both without and with a default.
C6_ClassificationPartitionsByDefault ==
    Assembled =>
        LET req == tplVars["parsedRequiredInputs"]
            opt == tplVars["parsedOptionalInputs"]
        IN  /\ Len(req) + Len(opt) = Len(inputs)
            /\ \A i \in 1..Len(inputs) :
                  /\ (\E j \in 1..Len(req) : req[j] = inputs[i])
                        <=> inputs[i].DefaultValue = ""
                  /\ (\E j \in 1..Len(opt) : opt[j] = inputs[i])
                        <=> inputs[i].DefaultValue /= ""
            /\ IsSubsequence(req, inputs)
            /\ IsSubsequence(opt, inputs)
            /\ \A i \in 1..Len(req), j \in 1..Len(opt) : req[i] /= opt[j]
            /\ \A n \in Names(inputs) :
                  n \in Names(req) \cap Names(opt) <=> DeclaredBothWays(inputs, n)

\* C6 witness: X is declared in two files of the tree, once without and once
\* with a default, and is in both lists.
C6_Witness ==
    /\ Assembled
    /\ Len(moduleDir) = 2
    /\ "X" \in Names(tplVars["parsedRequiredInputs"])
    /\ "X" \in Names(tplVars["parsedOptionalInputs"])

\* What the claim says of the descriptor of one labelled variable block.
FieldsAsDocumented(input, b) ==
    LET X     == b.labels[1]
        descr == readBlockAttribute(b, "description")
        typ   == readBlockAttribute(b, "type")
        def   == readBlockAttribute(b, "default")
        dflt  == b.attrs["default"]
    IN  /\ input.Name = X
        /\ input.Description =
              IF descr.found THEN descr.val.str ELSE "No description for " \o X
        /\ input.Type = IF typ.found THEN typ.val.str ELSE "No type for " \o X
        /\ input.DefaultValue = "" <=> ~def.found
        /\ dflt = Lit(NumberVal(5)) => input.DefaultValue = "5"
        /\ dflt = Lit(NumberVal(0)) => input.DefaultValue = "0"
        /\ dflt = Lit(StringVal("a")) => input.DefaultValue = "\"a\""
        /\ dflt = Lit(StringVal("")) => input.DefaultValue = "\"\""
        /\ dflt = Lit(BoolVal(TRUE)) => input.DefaultValue = "true"
        /\ dflt = Lit(BoolVal(FALSE)) => input.DefaultValue = "false"
        /\ dflt = Lit(NullVal) => input.DefaultValue = "null"
        /\ dflt = TupleCons(<<>>) => input.DefaultValue = "[]"
        /\ dflt = TupleCons(<<Lit(StringVal("a"))>>) => input.DefaultValue = "[\"a\"]"
        /\ (b.attrs["description"] = Absent /\ b.attrs["type"] = Absent /\ dflt = Absent)
              => input = [Name |-> X, Description |-> "No description for " \o X,
                          Type |-> "No type for " \o X, DefaultValue |-> ""]

\* C7: every descriptor listInputs returns has the name of its block, the
\* resolved description and type or their placeholders, and the JSON text of
\* the resolved default, empty exactly when there is no resolved default.
C7_DescriptorFields ==
    (pc = "listInputs_done" /\ extracted.status = "ok") =>
        LET bs == LabelledBlocks(dir)
        IN  \A i \in 1..Len(extracted.inputs) :
                i <= Len(bs) /\ FieldsAsDocumented(extracted.inputs[i], bs[i])

\* C7 witness: a block with a string default and no description.
C7_Witness ==
    /\ pc = "listInputs_done"
    /\ extracted.status = "ok"
    /\ Len(extracted.inputs) = 1
    /\ extracted.inputs[1] = [Name |-> "X", Description |-> "No description for X",
                              Type |-> "string", DefaultValue |-> "\"a\""]

ReachedRender == \E i \in 1..Len(stages) : stages[i].stage = "render"

\* C8 as stated: in every run that reaches rendering, the locator the fetcher
\* got for the module is the value of sourceUrl.
C8_FetchedLocatorIsSourceUrl ==
    ReachedRender => fetches[1].src = tplVars["sourceUrl"]

\* C8 amended: the fetcher gets the locator as it is before the SSH rewrite;
\* sourceUrl equals it when the rewrite is not applied, and is its
\* <gitUser>@<host>:<path> form, a different string, when it is.
C8_FetchedLocatorIsUnrewrittenSourceUrl ==
    ReachedRender =>
        LET f == fetches[1].src
            m == parseUrl(f)
        IN  /\ fetches[1].dst = "tempDir"
            /\ f = UrlString(parsedModuleUrl)
            /\ IF m.scheme = SourceUrlTypeHttps /\ UrlTypeOf(scaffoldVars) = SourceUrlTypeGit
               THEN /\ tplVars["sourceUrl"] = SshForm(GitUserOf(scaffoldVars), m.host, m.path)
                    /\ tplVars["sourceUrl"] /= f
               ELSE tplVars["sourceUrl"] = f

\* C8 witness: a run that rendered with a rewritten, ref-pinned sourceUrl.
C8_Witness ==
    /\ ReachedRender
    /\ result = "ok"
    /\ LookupSucceeded
    /\ tplVars["sourceUrl"] = "alice@github.com:org/repo//modules/x?ref=v1.2.3"
    /\ fetches[1].src = "git::git-https://github.com/org/repo//modules/x?ref=v1.2.3"

\* C9 as stated: the name is returned only for an expression with exactly
\* one identifier that is a bare reference; every other expression is
\* evaluated, and fails when it needs bindings.
C9_NameOnlyForBareReference ==
    pc = "readBlockAttribute_done" =>
        LET e == Attribute(blk, attrName)
            v == Value(e)
        IN  IF e.kind = "absent" THEN ~attrResult.found /\ ~attrResult.err
            ELSE IF e.kind = "traversal" /\ Len(Variables(e)) = 1
            THEN attrResult = [found |-> TRUE, err |-> FALSE, val |-> StringVal(e.name)]
            ELSE IF v.err THEN attrResult.err /\ ~attrResult.found
            ELSE attrResult = [found |-> TRUE, err |-> FALSE, val |-> v.val]

\* C9 amended: an absent attribute is not found, without error; whenever the
\* expression references at least one identifier, the name of the first one
\* is returned as a string, without evaluation; an expression without
\* identifiers is evaluated: a literal succeeds, a function call fails.
C9_NameOfFirstIdentifier ==
    pc = "readBlockAttribute_done" =>
        LET e == Attribute(blk, attrName)
        IN  /\ e.kind = "absent" => ~attrResult.found /\ ~attrResult.err
            /\ e.kind = "traversal" =>
                  attrResult = [found |-> TRUE, err |-> FALSE, val |-> StringVal(e.name)]
            /\ (e.kind /= "absent" /\ Variables(e) /= <<>>) =>
                  attrResult = [found |-> TRUE, err |-> FALSE,
                                val |-> StringVal(Head(Variables(e)))]
            /\ e.kind = "literal" =>
                  attrResult = [found |-> TRUE, err |-> FALSE, val |-> e.val]
            /\ (e.kind = "call" /\ Variables(e) = <<>>) =>
                  attrResult.err /\ ~attrResult.found
            /\ (e.kind = "tuple" /\ Variables(e) = <<>>) =>
                  attrResult.found /\ ~attrResult.err /\ attrResult.val.ty = "tuple"

\* C9 witness: type = list(string) resolves to the name "string".
C9_Witness ==
    /\ pc = "readBlockAttribute_done"
    /\ attrName = "type"
    /\ Attribute(blk, attrName) = Call("list", <<Trav("string")>>)
    /\ attrResult = [found |-> TRUE, err |-> FALSE, val |-> StringVal("string")]

FatalStages ==
    {"normalize_module", "normalize_template", "fetch_module", "fetch_template",
     "extract", "render", "format"}

StageRank(stage) ==
    CASE stage \in {"mkdir_temp", "normalize_module", "split_source", "release_lookup"} -> 1
      [] stage \in {"fetch_module", "normalize_template", "mkdir_template",
                    "fetch_template"} -> 2
      [] stage = "extract" -> 3
      [] stage \in {"boilerplate_dir", "parse_vars", "classify"} -> 4
      [] stage = "context" -> 5
      [] stage = "render" -> 6
      [] stage = "format" -> 7

\* C10: a fatal stage that fails is the last stage executed, and Run returns
\* its error; the stages run in the order source resolution, fetch,
\* extraction, classification, context assembly, rendering, formatting.
C10_FatalErrorStopsThePipeline ==
    /\ \A i \in 1..Len(stages) :
          (stages[i].failed /\ stages[i].stage \in FatalStages)
              => /\ i = Len(stages)
                 /\ result = "error"
                 /\ errStage = stages[i].stage
    /\ \A i, j \in 1..Len(stages) :
          i < j => StageRank(stages[i].stage) <= StageRank(stages[j].stage)

====
